---------------------------- MODULE Spec2Model ----------------------------
(* Model of the entity-tag crate (src/src/lib.rs): the etagc validator,   *)
(* the checked constructors with_str / with_string / from_str /           *)
(* from_string, the Display formatter and the four comparators.           *)
(* A string is the sequence of its UTF-8 bytes (naturals 0..255).         *)
(* A constructor outcome is a record                                      *)
(*   [kind : {"Ok","Err","Panic"}, err, weak, tag]                        *)
(* where "Panic" is the abort of an out-of-range slice / remove / drain.  *)
EXTENDS Naturals, Sequences, FiniteSets

VARIABLES pc, input, op, flag, result, text, reparsed, other, cmp

vars == <<pc, input, op, flag, result, text, reparsed, other, cmp>>

-----------------------------------------------------------------------------
(* Bounds and the byte alphabet                                           *)

\* longest input, counted in characters
MaxLen == 5

DQUOTE == 34

\* the characters inputs are built from, each as its UTF-8 encoding:
\* '!', '"', '/', 'W', DEL and U+0080 (bytes C2 80)
Chars == { <<33>>, <<34>>, <<47>>, <<87>>, <<127>>, <<194, 128>> }

RECURSIVE StringsOfLen(_)
StringsOfLen(n) ==
    IF n = 0 THEN { <<>> }
    ELSE { c \o s : c \in Chars, s \in StringsOfLen(n - 1) }

\* every &str / String argument of at most MaxLen characters
Inputs == UNION { StringsOfLen(n) : n \in 0..MaxLen }

-----------------------------------------------------------------------------
(* Outcomes                                                               *)

Ok(weak, tag) == [kind |-> "Ok", err |-> "none", weak |-> weak, tag |-> tag]

Err(e) == [kind |-> "Err", err |-> e, weak |-> FALSE, tag |-> <<>>]

Panic == [kind |-> "Panic", err |-> "none", weak |-> FALSE, tag |-> <<>>]

NoResult == [kind |-> "None", err |-> "none", weak |-> FALSE, tag |-> <<>>]

-----------------------------------------------------------------------------
(* str / String primitives used by the constructors                       *)

\* str::strip_prefix
strip_prefix(s, p) ==
    IF Len(s) >= Len(p) /\ SubSeq(s, 1, Len(p)) = p
    THEN [some |-> TRUE, rest |-> SubSeq(s, Len(p) + 1, Len(s))]
    ELSE [some |-> FALSE, rest |-> s]

\* str::strip_suffix
strip_suffix(s, p) ==
    IF Len(s) >= Len(p) /\ SubSeq(s, Len(s) - Len(p) + 1, Len(s)) = p
    THEN [some |-> TRUE, rest |-> SubSeq(s, 1, Len(s) - Len(p))]
    ELSE [some |-> FALSE, rest |-> s]

\* str::is_char_boundary for a 0-based byte index
is_char_boundary(s, i) ==
    \/ i = 0
    \/ i = Len(s)
    \/ i < Len(s) /\ ~(s[i + 1] >= 128 /\ s[i + 1] <= 191)

\* width of the UTF-8 character whose leading byte is b
char_width(b) ==
    IF b < 128 THEN 1 ELSE IF b < 224 THEN 2 ELSE IF b < 240 THEN 3 ELSE 4

\* the 0-based index expression  len - 1  on usize: underflow aborts
\* (debug) or wraps to an index that is out of range (release)
last_index(s) ==
    IF Len(s) = 0 THEN [panic |-> TRUE, idx |-> 0]
    ELSE [panic |-> FALSE, idx |-> Len(s) - 1]

\* String::remove(idx): removes the character starting at byte idx
remove(s, idx) ==
    IF idx >= Len(s) \/ ~is_char_boundary(s, idx)
    THEN [panic |-> TRUE, s |-> s]
    ELSE [panic |-> FALSE,
          s |-> SubSeq(s, 1, idx) \o SubSeq(s, idx + 1 + char_width(s[idx + 1]), Len(s))]

\* &s[lo..hi] on a str
slice(s, lo, hi) ==
    IF lo > hi \/ hi > Len(s) \/ ~is_char_boundary(s, lo) \/ ~is_char_boundary(s, hi)
    THEN [panic |-> TRUE, s |-> s]
    ELSE [panic |-> FALSE, s |-> SubSeq(s, lo + 1, hi)]

\* Vec<u8>::drain(0..n)
drain_front(s, n) ==
    IF n > Len(s)
    THEN [panic |-> TRUE, s |-> s]
    ELSE [panic |-> FALSE, s |-> SubSeq(s, n + 1, Len(s))]

-----------------------------------------------------------------------------
(* Grammar validator                                                      *)

\* variant: the upper bound of the middle range taken as 0x7F
etagc_allows_del(c) == c = 33 \/ (c >= 35 /\ c <= 127) \/ c >= 128

etagc(c) == c = 33 \/ (c >= 35 /\ c <= 126) \/ c >= 128

\* variant: the byte check left out
check_unquoted_tag_skipped(s) == "none"

check_unquoted_tag(s) ==
    IF \A i \in 1..Len(s) : etagc(s[i]) THEN "none" ELSE "InvalidTag"

-----------------------------------------------------------------------------
(* Quote-tolerant constructors                                            *)

\* variant: the closing quote looked for in s itself, not in what follows
\* the opening quote
check_tag_suffix_of_whole(s) ==
    LET p == strip_prefix(s, <<DQUOTE>>)
        quoted == p.some
        q == strip_suffix(s, <<DQUOTE>>)
    IN  IF quoted /\ ~q.some
        THEN [err |-> "MissingClosingDoubleQuote", quoted |-> FALSE]
        ELSE LET body == IF quoted THEN strip_prefix(q.rest, <<DQUOTE>>).rest ELSE p.rest
             IN  IF check_unquoted_tag(body) # "none"
                 THEN [err |-> check_unquoted_tag(body), quoted |-> FALSE]
                 ELSE [err |-> "none", quoted |-> quoted]

check_tag(s) ==
    LET p == strip_prefix(s, <<DQUOTE>>)
        quoted == p.some
        q == strip_suffix(p.rest, <<DQUOTE>>)
    IN  IF quoted /\ ~q.some
        THEN [err |-> "MissingClosingDoubleQuote", quoted |-> FALSE]
        ELSE LET body == IF quoted THEN q.rest ELSE p.rest
             IN  IF check_unquoted_tag(body) # "none"
                 THEN [err |-> check_unquoted_tag(body), quoted |-> FALSE]
                 ELSE [err |-> "none", quoted |-> quoted]

with_string(weak, tag) ==
    LET c == check_tag(tag)
    IN  IF c.err # "none" THEN Err(c.err)
        ELSE IF ~c.quoted THEN Ok(weak, tag)
        ELSE LET li == last_index(tag)
             IN  IF li.panic THEN Panic
                 ELSE LET r1 == remove(tag, li.idx)
                      IN  IF r1.panic THEN Panic
                          ELSE LET r2 == remove(r1.s, 0)
                               IN  IF r2.panic THEN Panic ELSE Ok(weak, r2.s)

\* variant: the slice keeps the closing quote, &tag[1..tag.len()]
with_str_keeps_closing_quote(weak, tag) ==
    LET c == check_tag(tag)
    IN  IF c.err # "none" THEN Err(c.err)
        ELSE IF ~c.quoted THEN Ok(weak, tag)
        ELSE LET r == slice(tag, 1, Len(tag))
             IN  IF r.panic THEN Panic ELSE Ok(weak, r.s)

with_str(weak, tag) ==
    LET c == check_tag(tag)
    IN  IF c.err # "none" THEN Err(c.err)
        ELSE IF ~c.quoted THEN Ok(weak, tag)
        ELSE LET li == last_index(tag)
             IN  IF li.panic THEN Panic
                 ELSE LET r == slice(tag, 1, li.idx)
                      IN  IF r.panic THEN Panic ELSE Ok(weak, r.s)

-----------------------------------------------------------------------------
(* Strict wire parsing                                                    *)

\* variant: the closing quote checked before the opening quote
check_opaque_tag_closing_first(s) ==
    LET q == strip_suffix(s, <<DQUOTE>>)
    IN  IF ~q.some THEN "MissingClosingDoubleQuote"
        ELSE LET p == strip_prefix(q.rest, <<DQUOTE>>)
             IN  IF ~p.some THEN "MissingStartingDoubleQuote"
                 ELSE check_unquoted_tag(p.rest)

check_opaque_tag(s) ==
    LET p == strip_prefix(s, <<DQUOTE>>)
    IN  IF ~p.some THEN "MissingStartingDoubleQuote"
        ELSE LET q == strip_suffix(p.rest, <<DQUOTE>>)
             IN  IF ~q.some THEN "MissingClosingDoubleQuote"
                 ELSE check_unquoted_tag(q.rest)

\* variant: the prefix matched is "w/"
split_weak_lowercase(s) ==
    LET p == strip_prefix(s, <<119, 47>>)
    IN  [weak |-> p.some, opaque_tag |-> p.rest]

\* the weak flag and the opaque-tag both parsers split the input into
split_weak(s) ==
    LET p == strip_prefix(s, <<87, 47>>)
    IN  [weak |-> p.some, opaque_tag |-> p.rest]

\* variant: drain(0..2), which leaves the opening quote of a weak tag
from_string_drains_two(etag) ==
    LET sw == split_weak(etag)
        e == check_opaque_tag(sw.opaque_tag)
    IN  IF e # "none" THEN Err(e)
        ELSE LET li == last_index(etag)
             IN  IF li.panic THEN Panic
                 ELSE LET r1 == remove(etag, li.idx)
                      IN  IF r1.panic THEN Panic
                          ELSE LET r2 == IF sw.weak THEN drain_front(r1.s, 2)
                                                    ELSE remove(r1.s, 0)
                               IN  IF r2.panic THEN Panic ELSE Ok(sw.weak, r2.s)

from_string(etag) ==
    LET sw == split_weak(etag)
        e == check_opaque_tag(sw.opaque_tag)
    IN  IF e # "none" THEN Err(e)
        ELSE LET li == last_index(etag)
             IN  IF li.panic THEN Panic
                 ELSE LET r1 == remove(etag, li.idx)
                      IN  IF r1.panic THEN Panic
                          ELSE LET r2 == IF sw.weak THEN drain_front(r1.s, 3)
                                                    ELSE remove(r1.s, 0)
                               IN  IF r2.panic THEN Panic ELSE Ok(sw.weak, r2.s)

from_str(etag) ==
    LET sw == split_weak(etag)
        e == check_opaque_tag(sw.opaque_tag)
    IN  IF e # "none" THEN Err(e)
        ELSE LET li == last_index(sw.opaque_tag)
             IN  IF li.panic THEN Panic
                 ELSE LET r == slice(sw.opaque_tag, 1, li.idx)
                      IN  IF r.panic THEN Panic ELSE Ok(sw.weak, r.s)

-----------------------------------------------------------------------------
(* Comparators and formatter                                              *)

\* variant: the other side's weak flag not looked at
strong_eq_ignores_other_weak(a, b) == ~a.weak /\ a.tag = b.tag

strong_eq(a, b) == ~a.weak /\ ~b.weak /\ a.tag = b.tag

\* variant: the weak flags compared as well (derived equality)
weak_eq_compares_flags(a, b) == a.weak = b.weak /\ a.tag = b.tag

weak_eq(a, b) == a.tag = b.tag

strong_ne(a, b) == ~strong_eq(a, b)

weak_ne(a, b) == ~weak_eq(a, b)

\* variant: the weakness indicator never written
fmt_without_indicator(v) == <<DQUOTE>> \o v.tag \o <<DQUOTE>>

\* Display::fmt, and so to_string
fmt(v) ==
    (IF v.weak THEN <<87, 47>> ELSE <<>>) \o <<DQUOTE>> \o v.tag \o <<DQUOTE>>

NoCmp ==
    [done |-> FALSE, strong_eq |-> FALSE, weak_eq |-> FALSE,
     strong_ne |-> FALSE, weak_ne |-> FALSE,
     strong_eq_rev |-> FALSE, weak_eq_rev |-> FALSE,
     strong_eq_self |-> FALSE, weak_eq_self |-> FALSE]

-----------------------------------------------------------------------------
(* The state machine: one input is drawn, one constructor is applied to   *)
(* it, and the value built is then formatted and parsed back, or compared *)
(* with a second value.                                                   *)

Init ==
    /\ pc = "start"
    /\ input \in Inputs
    /\ op = "none"
    /\ flag = FALSE
    /\ result = NoResult
    /\ text = <<>>
    /\ reparsed = NoResult
    /\ other = NoResult
    /\ cmp = NoCmp

FromStr ==
    /\ pc = "start"
    /\ pc' = "built"
    /\ op' = "from_str"
    /\ result' = from_str(input)
    /\ UNCHANGED <<input, flag, text, reparsed, other, cmp>>

FromString ==
    /\ pc = "start"
    /\ pc' = "built"
    /\ op' = "from_string"
    /\ result' = from_string(input)
    /\ UNCHANGED <<input, flag, text, reparsed, other, cmp>>

WithStr ==
    /\ pc = "start"
    /\ \E w \in BOOLEAN :
          /\ flag' = w
          /\ result' = with_str(w, input)
    /\ pc' = "built"
    /\ op' = "with_str"
    /\ UNCHANGED <<input, text, reparsed, other, cmp>>

WithString ==
    /\ pc = "start"
    /\ \E w \in BOOLEAN :
          /\ flag' = w
          /\ result' = with_string(w, input)
    /\ pc' = "built"
    /\ op' = "with_string"
    /\ UNCHANGED <<input, text, reparsed, other, cmp>>

ToString ==
    /\ pc = "built"
    /\ result.kind = "Ok"
    /\ text' = fmt(result)
    /\ pc' = "formatted"
    /\ UNCHANGED <<input, op, flag, result, reparsed, other, cmp>>

Reparse ==
    /\ pc = "formatted"
    /\ reparsed' = from_str(text)
    /\ pc' = "reparsed"
    /\ UNCHANGED <<input, op, flag, result, text, other, cmp>>

\* the bodies the second operand of a comparison is built from: the first
\* operand's tag, bare and quoted, and two fixed bodies
CmpBodies(t) == { t, <<DQUOTE>> \o t \o <<DQUOTE>>, <<>>, <<33>> }

Compare ==
    /\ pc = "built"
    /\ result.kind = "Ok"
    /\ \E w \in BOOLEAN, b \in CmpBodies(result.tag) :
          LET o == with_str(w, b)
          IN  /\ o.kind = "Ok"
              /\ other' = o
              /\ cmp' = [done |-> TRUE,
                         strong_eq |-> strong_eq(result, o),
                         weak_eq |-> weak_eq(result, o),
                         strong_ne |-> strong_ne(result, o),
                         weak_ne |-> weak_ne(result, o),
                         strong_eq_rev |-> strong_eq(o, result),
                         weak_eq_rev |-> weak_eq(o, result),
                         strong_eq_self |-> strong_eq(result, result),
                         weak_eq_self |-> weak_eq(result, result)]
    /\ pc' = "compared"
    /\ UNCHANGED <<input, op, flag, result, text, reparsed>>

Next ==
    \/ FromStr
    \/ FromString
    \/ WithStr
    \/ WithString
    \/ ToString
    \/ Reparse
    \/ Compare

Spec == Init /\ [][Next]_vars

-----------------------------------------------------------------------------
(* The grammar of RFC 7232 section 2.3, stated on its own:                *)
(*   entity-tag = [ "W/" ] DQUOTE *etagc DQUOTE                           *)

IsEtagcByte(c) == c = 33 \/ c \in 35..126 \/ c \in 128..255

LegalBody(b) == \A i \in 1..Len(b) : IsEtagcByte(b[i])

Quoted(b) == <<34>> \o b \o <<34>>

Wire(wk, b) == (IF wk THEN <<87, 47>> ELSE <<>>) \o Quoted(b)

HasWeakPrefix(s) == Len(s) >= 2 /\ s[1] = 87 /\ s[2] = 47

\* s with an optional leading "W/" removed
Remainder(s) == IF HasWeakPrefix(s) THEN SubSeq(s, 3, Len(s)) ELSE s

\* the bytes strictly between the first and the last byte of s
Inner(s) == SubSeq(s, 2, Len(s) - 1)

IsQuoted(s) == Len(s) >= 2 /\ s[1] = 34 /\ s[Len(s)] = 34

InGrammar(s) == IsQuoted(Remainder(s)) /\ LegalBody(Inner(Remainder(s)))

Built == pc # "start"

Strict == op \in {"from_str", "from_string"}

Tolerant == op \in {"with_str", "with_string"}

SameValue(x, y) == x.kind = "Ok" /\ y.kind = "Ok" /\ x.weak = y.weak /\ x.tag = y.tag

-----------------------------------------------------------------------------
(* Claims                                                                 *)

\* C1: from_str(s) succeeds if and only if s is an optional "W/" followed by
\* a quoted run of etagc bytes; on success weak tells whether the prefix was
\* there and the tag is the span strictly between the two quotes.
C1_StrictParseAcceptsExactlyGrammar ==
    (Built /\ op = "from_str") =>
        /\ (result.kind = "Ok") <=> InGrammar(input)
        /\ result.kind = "Ok" =>
              /\ result.weak = HasWeakPrefix(input)
              /\ result.tag = Inner(Remainder(input))
              /\ input = Wire(result.weak, result.tag)

C1_Witness ==
    /\ pc = "built" /\ op = "from_str"
    /\ input = <<87, 47, 34, 33, 34>>
    /\ result.kind = "Ok" /\ result.weak /\ result.tag = <<33>>

\* C2: a rejected input of from_str / from_string carries the kind of the
\* first failing check: no opening quote after the optional "W/" gives
\* MissingStartingDoubleQuote; otherwise no closing quote after the opening
\* one gives MissingClosingDoubleQuote; otherwise an illegal byte between
\* the quotes gives InvalidTag.
C2_StrictErrorOrder ==
    (Built /\ Strict) =>
        LET rem == Remainder(input)
            noStart == rem = <<>> \/ rem[1] # 34
            noClose == Len(rem) = 1 \/ rem[Len(rem)] # 34
        IN  /\ noStart => (result.kind = "Err" /\ result.err = "MissingStartingDoubleQuote")
            /\ (~noStart /\ noClose) =>
                  (result.kind = "Err" /\ result.err = "MissingClosingDoubleQuote")
            /\ (~noStart /\ ~noClose /\ ~LegalBody(Inner(rem))) =>
                  (result.kind = "Err" /\ result.err = "InvalidTag")
            /\ result.kind = "Err" => (noStart \/ noClose \/ ~LegalBody(Inner(rem)))

\* an opening quote, an illegal byte and no closing quote: the closing
\* quote is reported, not the byte
C2_Witness ==
    /\ pc = "built" /\ op = "from_string"
    /\ input = <<87, 47, 34, 127>>
    /\ result.kind = "Err" /\ result.err = "MissingClosingDoubleQuote"

\* C3: for a body b of etagc bytes and a flag weak, to_string of
\* with_str(weak, b) is "W/" (only when weak), a quote, b and a quote.
C3_CanonicalFormat ==
    (pc = "formatted" /\ op = "with_str" /\ LegalBody(input)) =>
        text = Wire(flag, input)

C3_Witness ==
    /\ pc = "formatted" /\ op = "with_str" /\ flag
    /\ input = <<87, 47, 194, 128>>
    /\ text = <<87, 47, 34, 87, 47, 194, 128, 34>>

\* C4: to_string(from_str(w)) = w for every w of the grammar (and from_str
\* accepts every such w), and from_str(to_string(x)) succeeds and equals x
\* for every x a checked constructor returned.
C4_FormatParseInverse ==
    /\ (Built /\ op = "from_str" /\ InGrammar(input)) => result.kind = "Ok"
    /\ (pc \in {"formatted", "reparsed"} /\ op = "from_str") => text = input
    /\ pc = "reparsed" => SameValue(reparsed, result)

C4_Witness ==
    /\ pc = "reparsed" /\ op = "with_string"
    /\ result.weak /\ result.tag = <<194, 128, 33>>
    /\ reparsed.kind = "Ok" /\ reparsed.weak /\ reparsed.tag = result.tag

\* C5: with_str / with_string of a body b of etagc bytes and of b inside one
\* pair of quotes both succeed with the flag given and the tag b.
C5_QuoteTolerance ==
    (Built /\ Tolerant) =>
        /\ LegalBody(input) =>
              (result.kind = "Ok" /\ result.weak = flag /\ result.tag = input)
        /\ (IsQuoted(input) /\ LegalBody(Inner(input))) =>
              (result.kind = "Ok" /\ result.weak = flag /\ result.tag = Inner(input))

C5_Witness ==
    /\ pc = "built" /\ op = "with_str" /\ flag
    /\ input = <<34, 87, 47, 33, 34>>
    /\ result.kind = "Ok" /\ result.weak /\ result.tag = <<87, 47, 33>>

\* C6: strong_eq is true exactly when neither side is weak and the tags are
\* equal; weak_eq exactly when the tags are equal; strong_ne and weak_ne are
\* their negations.
C6_ComparatorResults ==
    pc = "compared" =>
        /\ cmp.strong_eq = (~result.weak /\ ~other.weak /\ result.tag = other.tag)
        /\ cmp.weak_eq = (result.tag = other.tag)
        /\ cmp.strong_ne = ~cmp.strong_eq
        /\ cmp.weak_ne = ~cmp.weak_eq

\* equal tags, one side weak: weakly equal, not strongly
C6_Witness ==
    /\ pc = "compared"
    /\ ~result.weak /\ other.weak /\ result.tag = other.tag /\ result.tag # <<>>
    /\ cmp.weak_eq /\ ~cmp.strong_eq /\ cmp.strong_ne /\ ~cmp.weak_ne

\* C7: on values a, b with equal tags weak_eq(a, a), weak_eq(a, b) and
\* weak_eq(b, a) are true, strong_eq(a, b) = strong_eq(b, a), and
\* strong_eq(a, a) and strong_eq(a, b) are true when the values involved
\* are not weak.
C7_ReflexiveSymmetric ==
    (pc = "compared" /\ result.tag = other.tag) =>
        /\ cmp.weak_eq_self /\ cmp.weak_eq /\ cmp.weak_eq_rev
        /\ cmp.strong_eq = cmp.strong_eq_rev
        /\ ~result.weak => cmp.strong_eq_self
        /\ (~result.weak /\ ~other.weak) => cmp.strong_eq

C7_Witness ==
    /\ pc = "compared"
    /\ result.weak /\ ~other.weak /\ result.tag = other.tag /\ result.tag # <<>>
    /\ cmp.weak_eq /\ cmp.weak_eq_rev /\ cmp.weak_eq_self
    /\ ~cmp.strong_eq /\ ~cmp.strong_eq_rev

\* C8: from_string(s) has the outcome of from_str(s) and with_string(w, s)
\* the outcome of with_str(w, s): the same value or the same error kind.
C8_OwningEqualsBorrowing ==
    /\ (Built /\ op = "from_string") => result = from_str(input)
    /\ (Built /\ op = "with_string") => result = with_str(flag, input)

\* a weak tag whose body is a two-byte character: three bytes are drained
C8_Witness ==
    /\ pc = "built" /\ op = "from_string"
    /\ input = <<87, 47, 34, 194, 128, 34>>
    /\ result.kind = "Ok" /\ result.weak /\ result.tag = <<194, 128>>

\* C9: every value a checked constructor returns holds a tag of etagc bytes
\* only: no double quote in it, and neither the surrounding quotes nor the
\* "W/" prefix of the input left in it.
C9_TagLegality ==
    (Built /\ result.kind = "Ok") =>
        /\ LegalBody(result.tag)
        /\ \A i \in 1..Len(result.tag) : result.tag[i] # 34
        /\ Strict =>
              Len(result.tag) + 2 + (IF HasWeakPrefix(input) THEN 2 ELSE 0) = Len(input)
        /\ (Tolerant /\ input # <<>> /\ input[1] = 34) =>
              Len(result.tag) + 2 = Len(input)

C9_Witness ==
    /\ pc = "built" /\ op = "with_string"
    /\ input = <<34, 33, 194, 128, 34>>
    /\ result.kind = "Ok" /\ result.tag = <<33, 194, 128>>

\* C10: every checked constructor returns a value or one of the three error
\* kinds on every input; no slice, remove or drain is out of range.
C10_ConstructorsTotal ==
    /\ Built =>
          \/ result.kind = "Ok"
          \/ /\ result.kind = "Err"
             /\ result.err \in {"MissingStartingDoubleQuote",
                                "MissingClosingDoubleQuote", "InvalidTag"}
    /\ pc = "reparsed" => reparsed.kind \in {"Ok", "Err"}

\* the lone double quote, on the path that removes characters in place
C10_Witness ==
    /\ pc = "built" /\ op = "with_string"
    /\ input = <<34>>
    /\ result.kind = "Err" /\ result.err = "MissingClosingDoubleQuote"

=============================================================================
